---------------------------- MODULE Spec2Model ----------------------------
(***************************************************************************)
(* Black-Scholes pricing kernel (price_option, compute_greeks) and the     *)
(* batch evaluator (price_batch) of the options pricing engine.            *)
(*                                                                         *)
(* A C++ double is modelled as a sign-magnitude fixed-point number with    *)
(* SCALE units per 1.0, extended with the IEEE-754 special values the      *)
(* kernel can produce on degenerate inputs: signed zero, +inf, -inf, NaN.  *)
(* Arithmetic rounds to the nearest unit.  The library functions the       *)
(* kernel calls (std::sqrt, std::log, std::exp, std::erfc) are computed in *)
(* that arithmetic, with the IEEE results on the special values.           *)
(***************************************************************************)
EXTENDS Integers, Sequences, FiniteSets

(***************************************************************************)
(* double                                                                  *)
(***************************************************************************)
\* Units per 1.0 of the fixed-point reading of a double.
SCALE == 10 * 10 * 10

Fin(s, m) == [k |-> "fin", s |-> s, m |-> m]
NaN  == [k |-> "nan", s |-> 1, m |-> 0]
PInf == [k |-> "inf", s |-> 1, m |-> 0]
NInf == [k |-> "inf", s |-> -1, m |-> 0]
Inf(s) == [k |-> "inf", s |-> s, m |-> 0]
\* A local that holds no value yet.
Uninit == [k |-> "uninit", s |-> 1, m |-> 0]

\* The values a double variable holds.
Double == [k : {"fin", "inf", "nan", "uninit"}, s : {-1, 1}, m : Nat]

Abs(i) == IF i < 0 THEN -i ELSE i

\* A literal given in units of 1/SCALE: D(50) is 0.05, D(-200) is -0.2.
D(i) == Fin(IF i < 0 THEN -1 ELSE 1, Abs(i))

IsNaN(x) == x.k = "nan"
IsInf(x) == x.k = "inf"
IsFinite(x) == x.k = "fin"
IsZero(x) == x.k = "fin" /\ x.m = 0

\* The signed number of units of a finite value.
Val(x) == x.s * x.m

\* Rounded quotient of two naturals (round half up), b > 0.
RDiv(a, b) == (2 * a + b) \div (2 * b)

\* unary minus
Neg[x \in Double] == IF IsNaN(x) THEN NaN ELSE [x EXCEPT !.s = -x.s]

\* operator+
Add[x \in Double, y \in Double] ==
    IF IsNaN(x) \/ IsNaN(y) THEN NaN
    ELSE IF IsInf(x) /\ IsInf(y) THEN (IF x.s = y.s THEN x ELSE NaN)
    ELSE IF IsInf(x) THEN x
    ELSE IF IsInf(y) THEN y
    ELSE LET v == Val(x) + Val(y)
         IN  IF v = 0
             THEN Fin(IF x.s = -1 /\ y.s = -1 THEN -1 ELSE 1, 0)
             ELSE Fin(IF v < 0 THEN -1 ELSE 1, Abs(v))

\* operator-
Sub[x \in Double, y \in Double] == Add[x, Neg[y]]

\* operator*
Mul[x \in Double, y \in Double] ==
    IF IsNaN(x) \/ IsNaN(y) THEN NaN
    ELSE IF (IsInf(x) /\ IsZero(y)) \/ (IsZero(x) /\ IsInf(y)) THEN NaN
    ELSE IF IsInf(x) \/ IsInf(y) THEN Inf(x.s * y.s)
    ELSE Fin(x.s * y.s, RDiv(x.m * y.m, SCALE))

\* operator/ : x/0 is a signed infinity, 0/0 and inf/inf are NaN.
Div[x \in Double, y \in Double] ==
    IF IsNaN(x) \/ IsNaN(y) THEN NaN
    ELSE IF IsInf(x) /\ IsInf(y) THEN NaN
    ELSE IF IsInf(x) THEN Inf(x.s * y.s)
    ELSE IF IsInf(y) THEN Fin(x.s * y.s, 0)
    ELSE IF y.m = 0 THEN (IF x.m = 0 THEN NaN ELSE Inf(x.s * y.s))
    ELSE Fin(x.s * y.s, RDiv(x.m * SCALE, y.m))

\* x < y, false when either is NaN.
Less(x, y) ==
    /\ ~IsNaN(x) /\ ~IsNaN(y)
    /\ IF IsInf(x) THEN x.s = -1 /\ ~(IsInf(y) /\ y.s = -1)
       ELSE IF IsInf(y) THEN y.s = 1
       ELSE Val(x) < Val(y)

\* x <= y, false when either is NaN.
LessEq(x, y) == ~IsNaN(x) /\ ~IsNaN(y) /\ ~Less(y, x)

\* x > 0
Positive(x) == Less(D(0), x)

(***************************************************************************)
(* <cmath>                                                                 *)
(***************************************************************************)
\* Largest r in lo..hi with r*r <= n (lo*lo <= n < (hi+1)*(hi+1)).
ISqrtSearch[n \in Nat, lo \in Nat, hi \in Nat] ==
    IF lo >= hi THEN lo
    ELSE LET mid == (lo + hi + 1) \div 2
         IN  IF mid * mid <= n THEN ISqrtSearch[n, mid, hi]
                                ELSE ISqrtSearch[n, lo, mid - 1]

\* std::sqrt: NaN below zero, sqrt(-0) = -0, sqrt(+inf) = +inf.
Sqrt[x \in Double] ==
    IF IsNaN(x) THEN NaN
    ELSE IF x.m = 0 /\ ~IsInf(x) THEN x
    ELSE IF x.s = -1 THEN NaN
    ELSE IF IsInf(x) THEN PInf
    ELSE Fin(1, (ISqrtSearch[4 * x.m * SCALE, 0, 46340] + 1) \div 2)

\* ln 2
LN2 == D(693)

\* Sum of the Taylor terms f^n/n! for n >= i, given term = f^(i-1)/(i-1)!.
ExpSeries[f \in Double, term \in Double, i \in Nat, acc \in Double] ==
    LET t == Div[Mul[term, f], D(i * SCALE)]
    IN  IF IsZero(t) THEN acc ELSE ExpSeries[f, t, i + 1, Add[acc, t]]

Pow2[n \in Nat] == IF n = 0 THEN 1 ELSE 2 * Pow2[n - 1]

\* x * 2^k for a finite x >= 0; below half a unit the result is +0.
Scale2(x, k) ==
    IF k >= 0 THEN Fin(1, x.m * Pow2[k])
    ELSE IF -k > 20 THEN D(0)
    ELSE Fin(1, RDiv(x.m, Pow2[-k]))

\* std::exp: exp(-inf) = +0, exp(+inf) = +inf; a finite x = k ln2 + f is
\* reduced to 0 <= f < ln2 and exp(x) = 2^k * exp(f).
Exp[x \in Double] ==
    IF IsNaN(x) THEN NaN
    ELSE IF IsInf(x) THEN (IF x.s = 1 THEN PInf ELSE D(0))
    ELSE LET v == Val(x)
             k == IF v >= 0 THEN v \div LN2.m ELSE -((-v + LN2.m - 1) \div LN2.m)
             f == D(v - k * LN2.m)
         IN  Scale2(ExpSeries[f, D(SCALE), 1, D(SCALE)], k)

\* Sum of y^n/n over the odd n >= i, given pow = y^i.
AtanhSeries[y2 \in Double, pow \in Double, i \in Nat, acc \in Double] ==
    LET t == Div[pow, D(i * SCALE)]
    IN  IF IsZero(t) THEN acc
        ELSE AtanhSeries[y2, Mul[pow, y2], i + 2, Add[acc, t]]

\* ln of a positive finite x: x = 2^k * m with 1 <= m < 2,
\* ln m = 2 atanh((m-1)/(m+1)).
LogReduced[x \in Double, k \in Int] ==
    IF x.m >= 2 * SCALE THEN LogReduced[Div[x, D(2 * SCALE)], k + 1]
    ELSE IF x.m < SCALE THEN LogReduced[Mul[x, D(2 * SCALE)], k - 1]
    ELSE LET y == Div[Sub[x, D(SCALE)], Add[x, D(SCALE)]]
             s == AtanhSeries[Mul[y, y], y, 1, D(0)]
         IN  Add[Mul[D(2 * SCALE), s], D(k * LN2.m)]

\* std::log: log(+-0) = -inf, NaN below zero, log(+inf) = +inf.
Log[x \in Double] ==
    IF IsNaN(x) THEN NaN
    ELSE IF x.m = 0 /\ ~IsInf(x) THEN NInf
    ELSE IF x.s = -1 THEN NaN
    ELSE IF IsInf(x) THEN PInf
    ELSE LogReduced[x, 0]

\* Polynomial of the rational approximation of erfc on x >= 0
\* (Abramowitz and Stegun 7.1.26), in t = 1/(1 + p x), by Horner's rule.
ErfcPoly[t \in Double] ==
    LET a1 == D(255)
        a2 == D(-284)
        a3 == D(1421)
        a4 == D(-1453)
        a5 == D(1061)
    IN  Mul[t, Add[a1, Mul[t, Add[a2, Mul[t, Add[a3, Mul[t, Add[a4, Mul[t, a5]]]]]]]]]

\* std::erfc: erfc(+inf) = 0, erfc(-inf) = 2, erfc(-x) = 2 - erfc(x).
Erfc[x \in Double] ==
    IF IsNaN(x) THEN NaN
    ELSE IF IsInf(x) THEN (IF x.s = 1 THEN D(0) ELSE D(2 * SCALE))
    ELSE LET ax == Fin(1, x.m)
             t  == Div[D(SCALE), Add[D(SCALE), Mul[D(328), ax]]]
             e  == Mul[ErfcPoly[t], Exp[Neg[Mul[ax, ax]]]]
         IN  IF x.s = 1 THEN e ELSE Sub[D(2 * SCALE), e]

(***************************************************************************)
(* black_scholes.cpp: the helpers of the anonymous namespace               *)
(***************************************************************************)
\* N(x) = erfc(-x / sqrt(2)) / 2
norm_cdf[x \in Double] == Div[Erfc[Div[Neg[x], Sqrt[D(2 * SCALE)]]], D(2 * SCALE)]

\* 1 / sqrt(2 pi) = 0.3989422804014327
INV_SQRT_2PI == D(399)

\* N'(x) = INV_SQRT_2PI * exp(-0.5 * x * x)
norm_pdf[x \in Double] == Mul[INV_SQRT_2PI, Exp[Mul[Mul[D(-500), x], x]]]

\* (log(S / K) + (r + 0.5 * sigma * sigma) * T) / (sigma * sqrt(T))
d1(S, K, r, sigma, T) ==
    Div[Add[Log[Div[S, K]], Mul[Add[r, Mul[Mul[D(500), sigma], sigma]], T]],
        Mul[sigma, Sqrt[T]]]

\* d1_val - sigma * sqrt(T)
d2(d1_val, sigma, T) == Sub[d1_val, Mul[sigma, Sqrt[T]]]

\* exp(-r * T)
Discount(r, T) == Exp[Mul[Neg[r], T]]

\* The return expression of price_option, from its three locals.
PriceFrom(S, K, d1v, d2v, disc, type) ==
    IF type = "CALL"
    THEN Sub[Mul[S, norm_cdf[d1v]], Mul[Mul[K, disc], norm_cdf[d2v]]]
    ELSE Sub[Mul[Mul[K, disc], norm_cdf[Neg[d2v]]], Mul[S, norm_cdf[Neg[d1v]]]]

\* DeltaFrom without the put's "- 1.0".
DeltaFromNoPut(d1v, type) == norm_cdf[d1v]

\* g.delta
DeltaFrom(d1v, type) ==
    IF type = "CALL" THEN norm_cdf[d1v] ELSE Sub[norm_cdf[d1v], D(SCALE)]

\* g.gamma = npd1 / (S * sigma * sqrtT)
GammaFrom(S, sigma, sqrtT, npd1) == Div[npd1, Mul[Mul[S, sigma], sqrtT]]

\* g.vega = S * npd1 * sqrtT / 100.0
VegaFrom(S, sqrtT, npd1) == Div[Mul[Mul[S, npd1], sqrtT], D(100 * SCALE)]

\* common_term = -(S * npd1 * sigma) / (2.0 * sqrtT)
CommonTerm(S, sigma, sqrtT, npd1) ==
    Div[Neg[Mul[Mul[S, npd1], sigma]], Mul[D(2 * SCALE), sqrtT]]

\* g.theta
ThetaFrom(K, r, d2v, disc, common_term, type) ==
    IF type = "CALL"
    THEN Div[Sub[common_term, Mul[Mul[Mul[r, K], disc], norm_cdf[d2v]]],
             D(365 * SCALE)]
    ELSE Div[Add[common_term, Mul[Mul[Mul[r, K], disc], norm_cdf[Neg[d2v]]]],
             D(365 * SCALE)]

(***************************************************************************)
(* The kernel as functions of a contract's six fields: what one call       *)
(* returns when it runs alone.                                             *)
(***************************************************************************)
price_option(S, K, r, sigma, T, type) ==
    LET d1v  == d1(S, K, r, sigma, T)
        d2v  == d2(d1v, sigma, T)
        disc == Discount(r, T)
    IN  PriceFrom(S, K, d1v, d2v, disc, type)

compute_greeks(S, K, r, sigma, T, type) ==
    LET d1v   == d1(S, K, r, sigma, T)
        d2v   == d2(d1v, sigma, T)
        sqrtT == Sqrt[T]
        disc  == Discount(r, T)
        npd1  == norm_pdf[d1v]
    IN  [delta |-> DeltaFrom(d1v, type),
         gamma |-> GammaFrom(S, sigma, sqrtT, npd1),
         vega  |-> VegaFrom(S, sqrtT, npd1),
         theta |-> ThetaFrom(K, r, d2v, disc,
                             CommonTerm(S, sigma, sqrtT, npd1), type)]

\* struct Contract
Contract(S, K, r, sigma, T, type) ==
    [S |-> S, K |-> K, r |-> r, sigma |-> sigma, T |-> T, option_type |-> type]

\* enum class OptionType
OptionType == {"CALL", "PUT"}

PriceOf(c) == price_option(c.S, c.K, c.r, c.sigma, c.T, c.option_type)
GreeksOf(c) == compute_greeks(c.S, c.K, c.r, c.sigma, c.T, c.option_type)

\* The documented precondition of the kernel: S > 0, K > 0, sigma > 0, T > 0.
Valid(c) == Positive(c.S) /\ Positive(c.K) /\ Positive(c.sigma) /\ Positive(c.T)

(***************************************************************************)
(* Callers.  Each caller runs one call at a time, statement by statement,  *)
(* on its own stack frame; two callers model two threads of a host that    *)
(* shards its work.                                                        *)
(***************************************************************************)
Threads == {"main", "worker"}

\* Largest batch the single caller of Spec prices.
MaxBatch == 3
\* Largest batch a caller of ConcSpec prices.
ConcMaxBatch == 2

\* Greeks g{}
ZeroGreeks == [delta |-> D(0), gamma |-> D(0), vega |-> D(0), theta |-> D(0)]
NoGreeks == [delta |-> Uninit, gamma |-> Uninit, vega |-> Uninit, theta |-> Uninit]
NoContract == Contract(Uninit, Uninit, Uninit, Uninit, Uninit, "CALL")
\* The locals of price_option and compute_greeks.
NoFrame == [d1v |-> Uninit, d2v |-> Uninit, sqrtT |-> Uninit, disc |-> Uninit,
            npd1 |-> Uninit, common_term |-> Uninit, g |-> NoGreeks]
\* std::vector<double> prices;
EmptyVector == [data |-> <<>>, cap |-> 0, allocs |-> 0]

VARIABLES
    pc,         \* the statement each caller is at
    op,         \* the entry point each caller called
    outcome,    \* how that call ended: "none", "returned" or "error"
    arg,        \* the arguments of the kernel call in progress
    frame,      \* the kernel call's locals
    ret,        \* the value the last price_option call returned
    greeks,     \* the value the last compute_greeks call returned
    contracts,  \* price_batch: the caller's input vector
    it,         \* price_batch: the index the range-for is at
    prices,     \* price_batch: the local output vector
    out,        \* price_batch: the returned vector
    calls       \* price_batch: the indices the kernel was invoked on, in order

vars == <<pc, op, outcome, arg, frame, ret, greeks, contracts, it, prices, out, calls>>

batchVars == <<contracts, it, prices, out, calls>>

Init ==
    /\ pc = [t \in Threads |-> "idle"]
    /\ op = [t \in Threads |-> "none"]
    /\ outcome = [t \in Threads |-> "none"]
    /\ arg = [t \in Threads |-> NoContract]
    /\ frame = [t \in Threads |-> NoFrame]
    /\ ret = [t \in Threads |-> Uninit]
    /\ greeks = [t \in Threads |-> NoGreeks]
    /\ contracts = [t \in Threads |-> <<>>]
    /\ it = [t \in Threads |-> 0]
    /\ prices = [t \in Threads |-> EmptyVector]
    /\ out = [t \in Threads |-> <<>>]
    /\ calls = [t \in Threads |-> <<>>]

(***************************************************************************)
(* price_option                                                            *)
(***************************************************************************)
\* A caller calls price_option(c.S, c.K, c.r, c.sigma, c.T, c.option_type).
CallPriceOption(t, c) ==
    /\ pc[t] = "idle"
    /\ pc' = [pc EXCEPT ![t] = "po_d1"]
    /\ op' = [op EXCEPT ![t] = "price_option"]
    /\ arg' = [arg EXCEPT ![t] = c]
    /\ frame' = [frame EXCEPT ![t] = NoFrame]
    /\ UNCHANGED <<outcome, ret, greeks, batchVars>>

\* PO_d1 with a runtime check of the precondition that ends the call in an
\* error.
PO_d1Checked(t) ==
    /\ pc[t] = "po_d1"
    /\ IF Valid(arg[t])
       THEN /\ frame' = [frame EXCEPT ![t].d1v =
                    d1(arg[t].S, arg[t].K, arg[t].r, arg[t].sigma, arg[t].T)]
            /\ pc' = [pc EXCEPT ![t] = "po_d2"]
            /\ UNCHANGED outcome
       ELSE /\ outcome' = [outcome EXCEPT ![t] = "error"]
            /\ pc' = [pc EXCEPT ![t] = "done"]
            /\ UNCHANGED frame
    /\ UNCHANGED <<op, arg, ret, greeks, batchVars>>

\* const double d1v = d1(S, K, r, sigma, T);
PO_d1(t) ==
    /\ pc[t] = "po_d1"
    /\ frame' = [frame EXCEPT ![t].d1v =
                    d1(arg[t].S, arg[t].K, arg[t].r, arg[t].sigma, arg[t].T)]
    /\ pc' = [pc EXCEPT ![t] = "po_d2"]
    /\ UNCHANGED <<op, outcome, arg, ret, greeks, batchVars>>

\* PO_d2 with d1v kept in one variable shared by all callers (the frame of
\* "main") instead of a local.
PO_d2Shared(t) ==
    /\ pc[t] = "po_d2"
    /\ frame' = [frame EXCEPT ![t].d2v =
                    d2(frame["main"].d1v, arg[t].sigma, arg[t].T)]
    /\ pc' = [pc EXCEPT ![t] = "po_disc"]
    /\ UNCHANGED <<op, outcome, arg, ret, greeks, batchVars>>

\* const double d2v = d2(d1v, sigma, T);
PO_d2(t) ==
    /\ pc[t] = "po_d2"
    /\ frame' = [frame EXCEPT ![t].d2v = d2(frame[t].d1v, arg[t].sigma, arg[t].T)]
    /\ pc' = [pc EXCEPT ![t] = "po_disc"]
    /\ UNCHANGED <<op, outcome, arg, ret, greeks, batchVars>>

\* PO_disc with disc a function-local static: a value another call has
\* stored is reused instead of being computed from this call's r and T.
PO_discStatic(t) ==
    /\ pc[t] = "po_disc"
    /\ LET others == {u \in Threads \ {t} : frame[u].disc # Uninit}
       IN  frame' = [frame EXCEPT ![t].disc =
                        IF others = {} THEN Discount(arg[t].r, arg[t].T)
                        ELSE frame[CHOOSE u \in others : TRUE].disc]
    /\ pc' = [pc EXCEPT ![t] = "po_ret"]
    /\ UNCHANGED <<op, outcome, arg, ret, greeks, batchVars>>

\* const double disc = std::exp(-r * T);
PO_disc(t) ==
    /\ pc[t] = "po_disc"
    /\ frame' = [frame EXCEPT ![t].disc = Discount(arg[t].r, arg[t].T)]
    /\ pc' = [pc EXCEPT ![t] = "po_ret"]
    /\ UNCHANGED <<op, outcome, arg, ret, greeks, batchVars>>

\* if (type == OptionType::CALL) return ...; else return ...;
\* The frame is popped; a direct call is over, a call from price_batch
\* returns into the push_back of the loop body.
PO_ret(t) ==
    /\ pc[t] = "po_ret"
    /\ ret' = [ret EXCEPT ![t] =
                  PriceFrom(arg[t].S, arg[t].K, frame[t].d1v, frame[t].d2v,
                            frame[t].disc, arg[t].option_type)]
    /\ frame' = [frame EXCEPT ![t] = NoFrame]
    /\ IF op[t] = "price_batch"
       THEN /\ pc' = [pc EXCEPT ![t] = "pb_push"]
            /\ UNCHANGED outcome
       ELSE /\ pc' = [pc EXCEPT ![t] = "done"]
            /\ outcome' = [outcome EXCEPT ![t] = "returned"]
    /\ UNCHANGED <<op, arg, greeks, batchVars>>

(***************************************************************************)
(* compute_greeks                                                          *)
(***************************************************************************)
CallComputeGreeks(t, c) ==
    /\ pc[t] = "idle"
    /\ pc' = [pc EXCEPT ![t] = "cg_d1"]
    /\ op' = [op EXCEPT ![t] = "compute_greeks"]
    /\ arg' = [arg EXCEPT ![t] = c]
    /\ frame' = [frame EXCEPT ![t] = NoFrame]
    /\ UNCHANGED <<outcome, ret, greeks, batchVars>>

\* The step of compute_greeks at statement `at`: the frame becomes f.
CGStep(t, at, next, f) ==
    /\ pc[t] = at
    /\ frame' = [frame EXCEPT ![t] = f]
    /\ pc' = [pc EXCEPT ![t] = next]
    /\ UNCHANGED <<op, outcome, arg, ret, greeks, batchVars>>

\* const double d1v = d1(S, K, r, sigma, T);
CG_d1(t) ==
    CGStep(t, "cg_d1", "cg_d2",
           [frame[t] EXCEPT !.d1v =
               d1(arg[t].S, arg[t].K, arg[t].r, arg[t].sigma, arg[t].T)])

\* const double d2v = d2(d1v, sigma, T);
CG_d2(t) ==
    CGStep(t, "cg_d2", "cg_sqrtT",
           [frame[t] EXCEPT !.d2v = d2(frame[t].d1v, arg[t].sigma, arg[t].T)])

\* const double sqrtT = std::sqrt(T);
CG_sqrtT(t) ==
    CGStep(t, "cg_sqrtT", "cg_disc", [frame[t] EXCEPT !.sqrtT = Sqrt[arg[t].T]])

\* const double disc = std::exp(-r * T);
CG_disc(t) ==
    CGStep(t, "cg_disc", "cg_npd1",
           [frame[t] EXCEPT !.disc = Discount(arg[t].r, arg[t].T)])

\* const double npd1 = norm_pdf(d1v);  Greeks g{};
CG_npd1(t) ==
    CGStep(t, "cg_npd1", "cg_delta",
           [frame[t] EXCEPT !.npd1 = norm_pdf[frame[t].d1v], !.g = ZeroGreeks])

\* g.delta = norm_cdf(d1v) or norm_cdf(d1v) - 1.0
CG_delta(t) ==
    CGStep(t, "cg_delta", "cg_gamma",
           [frame[t] EXCEPT !.g.delta = DeltaFrom(frame[t].d1v, arg[t].option_type)])

\* CG_gamma with the sign of gamma taken from the option type.
CG_gammaSigned(t) ==
    LET gm == GammaFrom(arg[t].S, arg[t].sigma, frame[t].sqrtT, frame[t].npd1)
    IN  CGStep(t, "cg_gamma", "cg_vega",
               [frame[t] EXCEPT !.g.gamma =
                   IF arg[t].option_type = "CALL" THEN gm ELSE Neg[gm]])

\* g.gamma = npd1 / (S * sigma * sqrtT);
CG_gamma(t) ==
    CGStep(t, "cg_gamma", "cg_vega",
           [frame[t] EXCEPT !.g.gamma =
               GammaFrom(arg[t].S, arg[t].sigma, frame[t].sqrtT, frame[t].npd1)])

\* g.vega = S * npd1 * sqrtT / 100.0;
CG_vega(t) ==
    CGStep(t, "cg_vega", "cg_theta",
           [frame[t] EXCEPT !.g.vega =
               VegaFrom(arg[t].S, frame[t].sqrtT, frame[t].npd1)])

\* const double common_term = ...;  g.theta = (common_term -/+ ...) / 365.0;
CG_theta(t) ==
    LET ct == CommonTerm(arg[t].S, arg[t].sigma, frame[t].sqrtT, frame[t].npd1)
    IN  CGStep(t, "cg_theta", "cg_ret",
               [frame[t] EXCEPT !.common_term = ct,
                                !.g.theta = ThetaFrom(arg[t].K, arg[t].r, frame[t].d2v,
                                                      frame[t].disc, ct,
                                                      arg[t].option_type)])

\* return g;
CG_ret(t) ==
    /\ pc[t] = "cg_ret"
    /\ greeks' = [greeks EXCEPT ![t] = frame[t].g]
    /\ frame' = [frame EXCEPT ![t] = NoFrame]
    /\ pc' = [pc EXCEPT ![t] = "done"]
    /\ outcome' = [outcome EXCEPT ![t] = "returned"]
    /\ UNCHANGED <<op, arg, ret, batchVars>>

(***************************************************************************)
(* std::vector<double>                                                     *)
(***************************************************************************)
\* reserve(n): one allocation of exactly n slots when n exceeds the capacity.
Reserve(v, n) ==
    IF n > v.cap THEN [v EXCEPT !.cap = n, !.allocs = v.allocs + 1] ELSE v

\* push_back(x): a full vector reallocates to twice its capacity first.
PushBack(v, x) ==
    LET w == IF Len(v.data) = v.cap
             THEN [v EXCEPT !.cap = IF v.cap = 0 THEN 1 ELSE 2 * v.cap,
                            !.allocs = v.allocs + 1]
             ELSE v
    IN  [w EXCEPT !.data = Append(v.data, x)]

(***************************************************************************)
(* price_batch                                                             *)
(***************************************************************************)
\* A caller calls price_batch(cs):  std::vector<double> prices;
CallPriceBatch(t, cs) ==
    /\ pc[t] = "idle"
    /\ pc' = [pc EXCEPT ![t] = "pb_reserve"]
    /\ op' = [op EXCEPT ![t] = "price_batch"]
    /\ contracts' = [contracts EXCEPT ![t] = cs]
    /\ prices' = [prices EXCEPT ![t] = EmptyVector]
    /\ UNCHANGED <<outcome, arg, frame, ret, greeks, it, out, calls>>

\* PB_reserve without the reserve call.
PB_reserveOmitted(t) ==
    /\ pc[t] = "pb_reserve"
    /\ it' = [it EXCEPT ![t] = 1]
    /\ pc' = [pc EXCEPT ![t] = "pb_loop"]
    /\ UNCHANGED <<op, outcome, arg, frame, ret, greeks, contracts, prices, out, calls>>

\* prices.reserve(contracts.size());  then the range-for starts at begin().
PB_reserve(t) ==
    /\ pc[t] = "pb_reserve"
    /\ prices' = [prices EXCEPT ![t] = Reserve(prices[t], Len(contracts[t]))]
    /\ it' = [it EXCEPT ![t] = 1]
    /\ pc' = [pc EXCEPT ![t] = "pb_loop"]
    /\ UNCHANGED <<op, outcome, arg, frame, ret, greeks, contracts, out, calls>>

\* PB_loop that leaves the loop one element early.
PB_loopOffByOne(t) ==
    /\ pc[t] = "pb_loop"
    /\ IF it[t] < Len(contracts[t])
       THEN /\ arg' = [arg EXCEPT ![t] = contracts[t][it[t]]]
            /\ frame' = [frame EXCEPT ![t] = NoFrame]
            /\ calls' = [calls EXCEPT ![t] = Append(calls[t], it[t])]
            /\ pc' = [pc EXCEPT ![t] = "po_d1"]
       ELSE /\ pc' = [pc EXCEPT ![t] = "pb_ret"]
            /\ UNCHANGED <<arg, frame, calls>>
    /\ UNCHANGED <<op, outcome, ret, greeks, contracts, it, prices, out>>

\* for (const auto& c : contracts): at end() the loop is left; otherwise
\* price_option(c.S, c.K, c.r, c.sigma, c.T, c.option_type) is called.
PB_loop(t) ==
    /\ pc[t] = "pb_loop"
    /\ IF it[t] <= Len(contracts[t])
       THEN /\ arg' = [arg EXCEPT ![t] = contracts[t][it[t]]]
            /\ frame' = [frame EXCEPT ![t] = NoFrame]
            /\ calls' = [calls EXCEPT ![t] = Append(calls[t], it[t])]
            /\ pc' = [pc EXCEPT ![t] = "po_d1"]
       ELSE /\ pc' = [pc EXCEPT ![t] = "pb_ret"]
            /\ UNCHANGED <<arg, frame, calls>>
    /\ UNCHANGED <<op, outcome, ret, greeks, contracts, it, prices, out>>

\* PB_push that inserts the price at the front of the vector.
PB_pushFront(t) ==
    /\ pc[t] = "pb_push"
    /\ prices' = [prices EXCEPT ![t].data = <<ret[t]>> \o prices[t].data]
    /\ ret' = [ret EXCEPT ![t] = Uninit]
    /\ it' = [it EXCEPT ![t] = it[t] + 1]
    /\ pc' = [pc EXCEPT ![t] = "pb_loop"]
    /\ UNCHANGED <<op, outcome, arg, frame, greeks, contracts, out, calls>>

\* PB_push that skips a price that is NaN.
PB_pushSkipNaN(t) ==
    /\ pc[t] = "pb_push"
    /\ prices' = [prices EXCEPT ![t] =
                     IF IsNaN(ret[t]) THEN prices[t] ELSE PushBack(prices[t], ret[t])]
    /\ ret' = [ret EXCEPT ![t] = Uninit]
    /\ it' = [it EXCEPT ![t] = it[t] + 1]
    /\ pc' = [pc EXCEPT ![t] = "pb_loop"]
    /\ UNCHANGED <<op, outcome, arg, frame, greeks, contracts, out, calls>>

\* prices.push_back(<the value price_option returned>);  ++iterator
PB_push(t) ==
    /\ pc[t] = "pb_push"
    /\ prices' = [prices EXCEPT ![t] = PushBack(prices[t], ret[t])]
    /\ ret' = [ret EXCEPT ![t] = Uninit]
    /\ it' = [it EXCEPT ![t] = it[t] + 1]
    /\ pc' = [pc EXCEPT ![t] = "pb_loop"]
    /\ UNCHANGED <<op, outcome, arg, frame, greeks, contracts, out, calls>>

\* return prices;
PB_ret(t) ==
    /\ pc[t] = "pb_ret"
    /\ out' = [out EXCEPT ![t] = prices[t].data]
    /\ pc' = [pc EXCEPT ![t] = "done"]
    /\ outcome' = [outcome EXCEPT ![t] = "returned"]
    /\ UNCHANGED <<op, arg, frame, ret, greeks, contracts, it, prices, calls>>

\* The caller has used the result and is ready for its next call.
Return(t) ==
    /\ pc[t] = "done"
    /\ pc' = [pc EXCEPT ![t] = "idle"]
    /\ op' = [op EXCEPT ![t] = "none"]
    /\ outcome' = [outcome EXCEPT ![t] = "none"]
    /\ arg' = [arg EXCEPT ![t] = NoContract]
    /\ ret' = [ret EXCEPT ![t] = Uninit]
    /\ greeks' = [greeks EXCEPT ![t] = NoGreeks]
    /\ contracts' = [contracts EXCEPT ![t] = <<>>]
    /\ it' = [it EXCEPT ![t] = 0]
    /\ prices' = [prices EXCEPT ![t] = EmptyVector]
    /\ out' = [out EXCEPT ![t] = <<>>]
    /\ calls' = [calls EXCEPT ![t] = <<>>]
    /\ UNCHANGED frame

(***************************************************************************)
(* Inputs                                                                  *)
(***************************************************************************)
SpotValues   == {D(-100000), D(0), D(50000), D(100000), D(200000)}
StrikeValues == {D(0), D(100000), D(200000)}
RateValues   == {D(-50), D(0), D(50)}
SigmaValues  == {D(-200), D(0), D(200), D(400)}
TimeValues   == {D(-1000), D(0), D(500), D(1000)}

\* The contracts of the single calls: valid ones and every way to violate
\* the precondition.
Contracts ==
    {Contract(S, K, r, sigma, T, type) :
        S \in SpotValues, K \in StrikeValues, r \in RateValues,
        sigma \in SigmaValues, T \in TimeValues, type \in OptionType}

\* The contracts of the batches: two valid ones, one whose d1 is 0/0 (T = 0
\* at the money) and one whose d1 is x/0 (sigma = 0).
BatchPool ==
    {Contract(D(100000), D(100000), D(50), D(200), D(1000), "CALL"),
     Contract(D(100000), D(200000), D(50), D(200), D(1000), "PUT"),
     Contract(D(100000), D(100000), D(50), D(200), D(0), "CALL"),
     Contract(D(200000), D(100000), D(50), D(0), D(1000), "PUT")}

\* The contracts of two concurrent callers: a call and a put on the same
\* valid parameters and a degenerate one.
ConcPool ==
    {Contract(D(100000), D(100000), D(50), D(200), D(1000), "CALL"),
     Contract(D(100000), D(100000), D(50), D(200), D(1000), "PUT"),
     Contract(D(100000), D(100000), D(50), D(200), D(0), "CALL")}

\* The contracts of their batches: a valid one and the one whose d1 is 0/0.
ConcBatchPool ==
    {Contract(D(100000), D(100000), D(50), D(200), D(1000), "CALL"),
     Contract(D(100000), D(100000), D(50), D(200), D(0), "CALL")}

SeqsUpTo(P, n) == UNION {[1..k -> P] : k \in 0..n}

(***************************************************************************)
(* Specifications                                                          *)
(***************************************************************************)
\* One statement of the call caller t is in.
Step(t) ==
    \/ PO_d1(t) \/ PO_d2(t) \/ PO_disc(t) \/ PO_ret(t)
    \/ CG_d1(t) \/ CG_d2(t) \/ CG_sqrtT(t) \/ CG_disc(t) \/ CG_npd1(t)
    \/ CG_delta(t) \/ CG_gamma(t) \/ CG_vega(t) \/ CG_theta(t) \/ CG_ret(t)
    \/ PB_reserve(t) \/ PB_loop(t) \/ PB_push(t) \/ PB_ret(t)
    \/ Return(t)

\* A single-threaded host: one caller, any sequence of calls.
Next ==
    \/ \E c \in Contracts : CallPriceOption("main", c)
    \/ \E c \in Contracts : CallComputeGreeks("main", c)
    \/ \E cs \in SeqsUpTo(BatchPool, MaxBatch) : CallPriceBatch("main", cs)
    \/ Step("main")

Spec == Init /\ [][Next]_vars

\* The same host, which keeps running the call it is in.
FairSpec == Spec /\ WF_vars(Step("main"))

\* Two callers, interleaved statement by statement, with no lock.
ConcNext ==
    \E t \in Threads :
        \/ \E c \in ConcPool : CallPriceOption(t, c)
        \/ \E c \in ConcPool : CallComputeGreeks(t, c)
        \/ \E cs \in SeqsUpTo(ConcBatchPool, ConcMaxBatch) : CallPriceBatch(t, cs)
        \/ Step(t)

ConcSpec == Init /\ [][ConcNext]_vars

(***************************************************************************)
(* Properties                                                              *)
(***************************************************************************)
Done(t, o) == pc[t] = "done" /\ op[t] = o

\* The contract with the other option type.
Flip(c) == [c EXCEPT !.option_type = IF c.option_type = "CALL" THEN "PUT" ELSE "CALL"]

\* kernel parameters of the repository's delta tests
DeepITM == Contract(D(200000), D(100000), D(50), D(200), D(1000), "CALL")
DeepOTM == Contract(D(50000), D(200000), D(50), D(200), D(1000), "CALL")

\* C1: price_batch returns a vector of the input's length whose element i is
\* price_option of input contract i, for every input including the empty one.
C1_BatchIsMapOfKernel ==
    \A t \in Threads :
        Done(t, "price_batch") =>
            /\ Len(out[t]) = Len(contracts[t])
            /\ \A i \in 1..Len(contracts[t]) : out[t][i] = PriceOf(contracts[t][i])

\* A batch of two different contracts or more has been priced.
C1_Witness ==
    /\ Done("main", "price_batch")
    /\ Len(out["main"]) >= 2
    /\ contracts["main"][1] # contracts["main"][2]
    /\ out["main"][1] # out["main"][2]

\* C2 as stated: a call of price_option on inputs that violate the
\* precondition ends in an error, not in a returned NaN or other value.
C2_ViolationIsError ==
    \A t \in Threads :
        (Done(t, "price_option") /\ ~Valid(arg[t])) => outcome[t] = "error"

\* C2 amended: price_option does not check the precondition; on inputs that
\* violate it the call returns normally, and returns NaN whenever d1 is NaN.
C2_ViolationReturnsSilently ==
    \A t \in Threads :
        (Done(t, "price_option") /\ ~Valid(arg[t])) =>
            /\ outcome[t] = "returned"
            /\ ret[t] # Uninit
            /\ IsNaN(d1(arg[t].S, arg[t].K, arg[t].r, arg[t].sigma, arg[t].T))
                   => IsNaN(ret[t])

\* price_option has returned NaN for T = 0 at the money.
C2_Witness ==
    /\ Done("main", "price_option")
    /\ arg["main"].T = D(0) /\ arg["main"].S = arg["main"].K
    /\ Positive(arg["main"].S) /\ Positive(arg["main"].sigma)
    /\ outcome["main"] = "returned"
    /\ IsNaN(ret["main"])

\* C4: the gamma and the vega compute_greeks returns are those of the same
\* parameters with the other option type.
C4_GammaVegaIgnoreType ==
    \A t \in Threads :
        Done(t, "compute_greeks") =>
            /\ greeks[t].gamma = GreeksOf(Flip(arg[t])).gamma
            /\ greeks[t].vega = GreeksOf(Flip(arg[t])).vega

\* compute_greeks has returned a put's positive gamma and vega.
C4_Witness ==
    /\ Done("main", "compute_greeks")
    /\ Valid(arg["main"])
    /\ arg["main"].option_type = "PUT"
    /\ Positive(greeks["main"].gamma)
    /\ Positive(greeks["main"].vega)

\* C5: on valid inputs delta is in [0,1] for a call and in [-1,0] for a put;
\* it is above 0.99 for the deep in-the-money call and below 0.01 for the
\* deep out-of-the-money call.
C5_DeltaBounds ==
    \A t \in Threads :
        (Done(t, "compute_greeks") /\ Valid(arg[t])) =>
            LET dl == greeks[t].delta
            IN  /\ arg[t].option_type = "CALL" => LessEq(D(0), dl) /\ LessEq(dl, D(SCALE))
                /\ arg[t].option_type = "PUT" => LessEq(D(-SCALE), dl) /\ LessEq(dl, D(0))
                /\ arg[t] = DeepITM => Less(D(990), dl)
                /\ arg[t] = DeepOTM => Less(dl, D(10))

\* compute_greeks has returned a valid put's delta strictly inside (-1, 0).
C5_Witness ==
    /\ Done("main", "compute_greeks")
    /\ Valid(arg["main"])
    /\ arg["main"].option_type = "PUT"
    /\ Less(D(-SCALE), greeks["main"].delta)
    /\ Less(greeks["main"].delta, D(0))

\* C6: a batch that holds a contract violating the precondition returns
\* normally with the input's length, and two batches of the same length agree
\* at every index where their contracts agree, whatever stands elsewhere.
C6_DegenerateStaysLocal ==
    /\ \A t \in Threads :
          Done(t, "price_batch") =>
              outcome[t] = "returned" /\ Len(out[t]) = Len(contracts[t])
    /\ \A a, b \in Threads :
          (/\ Done(a, "price_batch") /\ Done(b, "price_batch")
           /\ Len(contracts[a]) = Len(contracts[b])) =>
              \A i \in 1..Len(contracts[a]) :
                  (i <= Len(out[a]) /\ i <= Len(out[b])
                      /\ contracts[a][i] = contracts[b][i]) => out[a][i] = out[b][i]

\* Two batches of two have been priced that differ only in their last
\* contract, degenerate in one and valid in the other.
C6_Witness ==
    /\ Done("main", "price_batch") /\ Done("worker", "price_batch")
    /\ Len(out["main"]) = 2 /\ Len(out["worker"]) = 2
    /\ contracts["main"][1] = contracts["worker"][1]
    /\ Valid(contracts["main"][1])
    /\ ~Valid(contracts["main"][2]) /\ Valid(contracts["worker"][2])
    /\ IsNaN(out["main"][2]) /\ IsFinite(out["worker"][2])
    /\ out["main"][1] = out["worker"][1]

\* What a caller's variables hold.
Own(t) == <<pc[t], op[t], outcome[t], arg[t], frame[t], ret[t], greeks[t],
            contracts[t], it[t], prices[t], out[t], calls[t]>>

\* The result of each finished call is what the call returns run alone.
RunAloneResult ==
    \A t \in Threads :
        /\ Done(t, "price_option") => ret[t] = PriceOf(arg[t])
        /\ Done(t, "compute_greeks") => greeks[t] = GreeksOf(arg[t])
        /\ Done(t, "price_batch") =>
              out[t] = [i \in 1..Len(contracts[t]) |-> PriceOf(contracts[t][i])]

\* No step changes the variables of two callers.
WritesOwnOnly ==
    \A a, b \in Threads : (a # b /\ Own(a)' # Own(a)) => Own(b)' = Own(b)

\* C7: under every interleaving of two callers each finished call has the
\* result it has when run alone, and every step writes one caller's
\* variables only.
C7_ConcurrentCallsIndependent == []RunAloneResult /\ [][WritesOwnOnly]_vars

\* Both callers have finished a call while the other's was in progress or
\* held: a batch with a degenerate contract next to a compute_greeks.
C7_Witness ==
    /\ Done("main", "price_batch") /\ Len(out["main"]) = 2
    /\ Done("worker", "compute_greeks")
    /\ IsNaN(out["main"][2])
    /\ Positive(greeks["worker"].vega)

\* C8: two finished calls of price_option, or of compute_greeks, on the same
\* six inputs hold the same result.
C8_Deterministic ==
    \A a, b \in Threads :
        /\ (Done(a, "price_option") /\ Done(b, "price_option") /\ arg[a] = arg[b])
               => ret[a] = ret[b]
        /\ (Done(a, "compute_greeks") /\ Done(b, "compute_greeks") /\ arg[a] = arg[b])
               => greeks[a] = greeks[b]

\* Two callers hold the price of the same valid contract.
C8_Witness ==
    /\ Done("main", "price_option") /\ Done("worker", "price_option")
    /\ arg["main"] = arg["worker"]
    /\ Valid(arg["main"])
    /\ Positive(ret["main"])
    /\ ret["main"] = ret["worker"]

\* The statements of price_batch after the reserve.
InLoop(t) ==
    /\ op[t] = "price_batch"
    /\ pc[t] \in {"pb_loop", "po_d1", "po_d2", "po_disc", "po_ret", "pb_push", "pb_ret",
                  "done"}

\* C9: from the first iteration on the output vector's capacity is the input
\* length, the stored prices never exceed it, and the vector was allocated
\* at most once.
C9_SizedOnce ==
    \A t \in Threads :
        InLoop(t) =>
            /\ prices[t].cap = Len(contracts[t])
            /\ Len(prices[t].data) <= prices[t].cap
            /\ prices[t].allocs <= 1

\* The last push_back of a batch of two or more filled the reserved storage.
C9_Witness ==
    /\ pc["main"] = "pb_ret"
    /\ Len(prices["main"].data) >= 2
    /\ Len(prices["main"].data) = prices["main"].cap
    /\ prices["main"].allocs = 1

\* A finished batch invoked the kernel on the indices 1..n in this order.
OncePerContractInOrder ==
    \A t \in Threads :
        Done(t, "price_batch") => calls[t] = [i \in 1..Len(contracts[t]) |-> i]

\* A call of price_batch does not write its input.
InputUnchanged ==
    \A t \in Threads :
        (op[t] = "price_batch" /\ op'[t] = "price_batch") => contracts'[t] = contracts[t]

\* C10: every call of price_batch returns, having invoked the kernel once per
\* contract in increasing index order and left its input unchanged.
C10_BatchTerminates ==
    /\ []OncePerContractInOrder
    /\ [][InputUnchanged]_vars
    /\ \A t \in Threads : (pc[t] = "pb_reserve") ~> Done(t, "price_batch")

\* A batch of two or more has returned after that many kernel invocations.
C10_Witness ==
    /\ Done("main", "price_batch")
    /\ Len(contracts["main"]) >= 2
    /\ Len(calls["main"]) = Len(contracts["main"])
    /\ Len(out["main"]) = Len(contracts["main"])

=============================================================================
